---- MODULE Spec2Model ----
(***************************************************************************)
(* Model of the investor-matching pipeline of dvrshil/freemoney:           *)
(* the Convex action findRelevantInvestors (src/convex/findInvestors.ts,   *)
(* lines 155-393) and the later revision of the same action kept in        *)
(* src/unnamed/part_002.  One run of the action is one behaviour; every    *)
(* await of the handler is a suspension point and one action of the model  *)
(* resumes the handler from one await to the next.                         *)
(***************************************************************************)
EXTENDS Integers, Sequences, FiniteSets, TLC

(***************************************************************************)
(* Bounds of the model.                                                    *)
(***************************************************************************)
NumInvestors == 3
LongLen == 460

(***************************************************************************)
(* Program constants.                                                      *)
(***************************************************************************)
SummaryMin == 50
SummaryMax == 800
StrengthsMin == 2
StrengthsMax == 5
TractionMin == 1
TractionMax == 5
FallbackSliceEnd == 500
Dimensions == 1024
SearchLimit == 100
ResultLimit == 3
ResultLimitP2 == 100

(***************************************************************************)
(* Text.  A string is kept as a sequence of runs [ch, n]: n >= 1 copies of *)
(* a character class ch, where " " stands for white space (blank or line   *)
(* break) and "x" for any other character.  Length, concatenation, trim()  *)
(* and slice(0, k) are exact on this representation.                       *)
(***************************************************************************)
Run(c, k) == [ch |-> c, n |-> k]

Sp(k) == IF k = 0 THEN <<>> ELSE <<Run(" ", k)>>

Ch(k) == IF k = 0 THEN <<>> ELSE <<Run("x", k)>>

\* A literal without leading or trailing white space, by its length.
Str(s) == Ch(Len(s))

RECURSIVE TextLen(_)
TextLen(t) == IF t = <<>> THEN 0 ELSE Head(t).n + TextLen(Tail(t))

RECURSIVE TrimStart(_)
TrimStart(t) ==
  IF t = <<>> THEN <<>>
  ELSE IF Head(t).ch = " " THEN TrimStart(Tail(t)) ELSE t

RECURSIVE TrimEnd(_)
TrimEnd(t) ==
  IF t = <<>> THEN <<>>
  ELSE IF t[Len(t)].ch = " " THEN TrimEnd(SubSeq(t, 1, Len(t) - 1)) ELSE t

\* String.prototype.trim
Trim(t) == TrimEnd(TrimStart(t))

\* String.prototype.slice(0, k)
RECURSIVE Slice(_, _)
Slice(t, k) ==
  IF t = <<>> \/ k <= 0 THEN <<>>
  ELSE IF Head(t).n <= k THEN <<Head(t)>> \o Slice(Tail(t), k - Head(t).n)
  ELSE <<Run(Head(t).ch, k)>>

\* Array.prototype.join(', ') of an array of strings
RECURSIVE JoinComma(_)
JoinComma(items) ==
  IF items = <<>> THEN <<>>
  ELSE IF Len(items) = 1 THEN Str(items[1])
  ELSE Str(items[1]) \o Ch(1) \o Sp(1) \o JoinComma(Tail(items))

\* Array.prototype.includes
Includes(items, x) == \E i \in 1..Len(items) : items[i] = x


(***************************************************************************)
(* FounderSummarySchema (the revision that findInvestors.ts lines 222-236  *)
(* build their fallback for) and the structured-extraction call.           *)
(***************************************************************************)
Stages == {"pre-seed", "seed", "series-a", "series-b", "growth"}

\* zod: z.object({summary, key_strengths, stage, traction_highlights, funding_ask})
MatchesSchema(o) ==
  /\ TextLen(o.summary) >= SummaryMin
  /\ TextLen(o.summary) <= SummaryMax
  /\ Len(o.key_strengths) >= StrengthsMin
  /\ Len(o.key_strengths) <= StrengthsMax
  /\ o.stage \in Stages
  /\ Len(o.traction_highlights) >= TractionMin
  /\ Len(o.traction_highlights) <= TractionMax

\* funding_ask is optional: an absent one and '' are both kept as <<>>, the
\* code tests it only for truthiness (lines 252, 320).
Summary(text, ks, st, tr, fa) ==
  [summary |-> text, key_strengths |-> ks, stage |-> st,
   traction_highlights |-> tr, funding_ask |-> fa]

\* The value of a summary variable that holds no object (undefined).
Undefined == Summary(<<>>, <<>>, "undefined", <<>>, <<>>)

\* What the language model may answer: objects at both ends of the schema's
\* bounds, and objects outside them.
RawModelOutputs ==
  { Summary(Ch(SummaryMin), <<"s1", "s2">>, "pre-seed", <<"t1">>, <<>>),
    Summary(Ch(SummaryMax), <<"s1", "s2", "s3", "s4", "s5">>, "growth",
            <<"t1", "t2", "t3", "t4", "t5">>, Ch(LongLen)),
    Summary(Ch(SummaryMin - 1), <<"s1", "s2">>, "seed", <<"t1">>, <<>>),
    Summary(Ch(SummaryMin), <<"s1">>, "series-c", <<>>, <<>>) }

SchemaMismatchMessage == "No object generated: response did not match schema."

ExtractionErrorMessages == {"network error", "401 unauthorized", "429 quota exceeded"}

\* What the provider behind generateObject may do with one request.
ExtractionResponses ==
  [kind : {"object"}, object : RawModelOutputs, message : {""}]
    \cup [kind : {"error"}, object : {Undefined}, message : ExtractionErrorMessages]

\* generateObject({schema: FounderSummarySchema, ...}): the validated object,
\* or a thrown Error.
GenerateObject(resp) ==
  IF resp.kind = "error"
    THEN [ok |-> FALSE, object |-> Undefined, isError |-> TRUE, message |-> resp.message]
  ELSE IF MatchesSchema(resp.object)
    THEN [ok |-> TRUE, object |-> resp.object, isError |-> FALSE, message |-> ""]
  ELSE [ok |-> FALSE, object |-> Undefined, isError |-> TRUE,
        message |-> SchemaMismatchMessage]

\* error.message.includes('did not match schema')
IncludesDidNotMatchSchema(msg) == msg = SchemaMismatchMessage

\* FallbackSummary with the summary built from the two input texts alone.
FallbackSummaryInputsOnly(a) ==
  Summary(
    Slice(a.aboutYou \o Sp(1) \o a.aboutStartup, FallbackSliceEnd),
    <<"Domain expertise", "Technical skills", "Market understanding">>,
    "seed",
    <<"Building product", "Early customer interest">>,
    Str("Seeking investment for growth"))

\* The fallback summary of the catch block.
FallbackSummary(a) ==
  Summary(
    Slice(Str("Founder with experience in") \o Sp(1)
            \o JoinComma(a.selectedIndustries)
            \o Sp(1) \o Str("seeking investment.") \o Sp(1)
            \o a.aboutYou \o Sp(1) \o a.aboutStartup,
          FallbackSliceEnd),
    <<"Domain expertise", "Technical skills", "Market understanding">>,
    "seed",
    <<"Building product", "Early customer interest">>,
    Str("Seeking investment for growth"))

\* HandleExtraction without the catch block: every error is re-thrown.
HandleExtractionNoCatch(a, resp) ==
  LET r == GenerateObject(resp) IN
  IF r.ok
    THEN [threw |-> FALSE, founderSummary |-> r.object, message |-> ""]
    ELSE [threw |-> TRUE, founderSummary |-> Undefined, message |-> r.message]

\* HandleExtraction with a catch block that falls back on every error.
HandleExtractionCatchAll(a, resp) ==
  LET r == GenerateObject(resp) IN
  IF r.ok
    THEN [threw |-> FALSE, founderSummary |-> r.object, message |-> ""]
    ELSE [threw |-> FALSE, founderSummary |-> FallbackSummary(a), message |-> ""]

\* Step 1, from the awaited generateObject to the end of the try/catch:
\* the summary the handler goes on with, or the error it re-throws.
HandleExtraction(a, resp) ==
  LET r == GenerateObject(resp) IN
  IF r.ok
    THEN [threw |-> FALSE, founderSummary |-> r.object, message |-> ""]
  ELSE IF r.isError /\ IncludesDidNotMatchSchema(r.message)
    THEN [threw |-> FALSE, founderSummary |-> FallbackSummary(a), message |-> ""]
  ELSE [threw |-> TRUE, founderSummary |-> Undefined, message |-> r.message]

\* Step 2: the template literal embeddingText.
EmbeddingText(fs, sel) ==
  Sp(1) \o fs.summary
    \o Sp(1) \o Str("Key strengths:") \o Sp(1) \o JoinComma(fs.key_strengths)
    \o Sp(1) \o Str("Stage:") \o Sp(1) \o Str(fs.stage)
    \o Sp(1) \o Str("Traction:") \o Sp(1) \o JoinComma(fs.traction_highlights)
    \o Sp(1) \o (IF fs.funding_ask # <<>>
                   THEN Str("Funding ask:") \o Sp(1) \o fs.funding_ask
                   ELSE <<>>)
    \o Sp(1) \o Str("Industries:") \o Sp(1) \o JoinComma(sel) \o Sp(1)

\* input: embeddingText.trim()
EmbeddingInput(fs, sel) == Trim(EmbeddingText(fs, sel))


(***************************************************************************)
(* The investors table (schema: src/unnamed/part_002 lines 216-237) and    *)
(* the two capabilities the action reads it through.                       *)
(***************************************************************************)
Ids == 1..NumInvestors

\* An optional string field that the document does not have.
Missing == "<absent>"

\* The value ctx.db.get gives for an id with no document.
Null ==
  [_id |-> 0, name |-> "", industries |-> <<>>, dm_open_status |-> "",
   twitter_url |-> Missing, username |-> Missing]

\* `https://twitter.com/${username}`: an undefined value in a template
\* literal reads "undefined".
TemplateValue(v) == IF v = Missing THEN "undefined" ELSE v

ProfileUrl(username) == "https://twitter.com/" \o TemplateValue(username)

UserName(i) == "u" \o ToString(i)

\* The documents of the table: one with a matching industry and a twitter
\* url, one with two industries and only a username, one with an empty
\* industries array, one with another industry, and so on.
InvestorDoc(i) ==
  [_id |-> i,
   name |-> "Investor",
   industries |->
     CASE i % 4 = 1 -> <<"AI">>
       [] i % 4 = 2 -> <<"Consumer", "AI">>
       [] i % 4 = 3 -> <<>>
       [] OTHER -> <<"Fintech">>,
   dm_open_status |-> "open",
   twitter_url |-> IF i % 2 = 1 THEN ProfileUrl(UserName(i)) ELSE Missing,
   username |-> UserName(i)]

\* getById: ctx.db.get(args.id)
GetById(db, id) == db[id]

\* StoreAfterGetById for a getById that marks the document it read.
StoreAfterGetByIdTouched(db, id) ==
  IF db[id] = Null THEN db ELSE [db EXCEPT ![id].name = "Seen"]

\* getById is a query: running it leaves the table as it was.
StoreAfterGetById(db, id) == db

\* All orders of a set of ids.
RECURSIVE Perms(_)
Perms(S) ==
  IF S = {} THEN {<<>>}
  ELSE UNION {{<<x>> \o p : p \in Perms(S \ {x})} : x \in S}

Min(a, b) == IF a <= b THEN a ELSE b

\* ctx.vectorSearch('investors', 'byEmbedding', {vector, limit, filter}):
\* the ids of the documents with dm_open_status = 'open', nearest first, at
\* most `limit` of them, each with its score.  Which document is nearest
\* depends on the vectors, so every order is possible; scores descend.
VectorSearch(db, limit) ==
  LET open == {i \in DOMAIN db : db[i] # Null /\ db[i].dm_open_status = "open"}
      n == Min(limit, Cardinality(open))
  IN { [k \in 1..n |-> [_id |-> p[k], _score |-> n - k + 1]] : p \in Perms(open) }

\* HasMatchingIndustry with every() in place of some().
HasMatchingIndustryEvery(investor, sel) ==
  \A k \in 1..Len(investor.industries) : Includes(sel, investor.industries[k])

\* Step 4, the body of the for loop for one looked-up document.
HasMatchingIndustry(investor, sel) ==
  \E k \in 1..Len(investor.industries) : Includes(sel, investor.industries[k])

\* WithScore that leaves the score out.
WithScoreZero(investor, score) ==
  [_id |-> investor._id, name |-> investor.name,
   industries |-> investor.industries,
   dm_open_status |-> investor.dm_open_status,
   twitter_url |-> investor.twitter_url, username |-> investor.username,
   _score |-> 0]

\* {...investor, _score: result._score}
WithScore(investor, score) ==
  [_id |-> investor._id, name |-> investor.name,
   industries |-> investor.industries,
   dm_open_status |-> investor.dm_open_status,
   twitter_url |-> investor.twitter_url, username |-> investor.username,
   _score |-> score]

\* PushIfMatching with unshift in place of push.
UnshiftIfMatching(acc, investor, res, sel) ==
  IF investor # Null /\ HasMatchingIndustry(investor, sel)
    THEN <<WithScore(investor, res._score)>> \o acc
    ELSE acc

PushIfMatching(acc, investor, res, sel) ==
  IF investor # Null /\ HasMatchingIndustry(investor, sel)
    THEN Append(acc, WithScore(investor, res._score))
    ELSE acc

\* TopInvestors with slice(-limit): the last elements.
TopInvestorsLast(withData, limit) ==
  SubSeq(withData, Len(withData) - Min(limit, Len(withData)) + 1, Len(withData))

\* investorsWithData.slice(0, limit)
TopInvestors(withData, limit) == SubSeq(withData, 1, Min(limit, Len(withData)))


(***************************************************************************)
(* Step 5: one branch of the Promise.all per retained investor.            *)
(***************************************************************************)
\* messageResponse.choices[0].message.content: a string, or null.
Content(p, t) == [present |-> p, text |-> t]

GenContents ==
  { Content(FALSE, <<>>), Content(TRUE, <<>>), Content(TRUE, Sp(1)),
    Content(TRUE, Sp(1) \o Ch(1)), Content(TRUE, Ch(2)) }

GenerationOutcomes ==
  [kind : {"ok"}, content : GenContents]
    \cup [kind : {"error"}, content : {Content(FALSE, <<>>)}]

\* PersonalizedMessage with a stock text in place of ''.
PersonalizedMessageOrStock(content) ==
  IF content.present /\ Trim(content.text) # <<>>
    THEN Trim(content.text)
    ELSE Ch(1)

\* content?.trim() || ''
PersonalizedMessage(content) ==
  IF content.present THEN Trim(content.text) ELSE <<>>

Pending == [state |-> "pending", content |-> Content(FALSE, <<>>),
            personalizedMessage |-> <<>>]

\* The async callback of topInvestors.map, resumed by its awaited call.
BranchSettled(outcome) ==
  IF outcome.kind = "ok"
    THEN [state |-> "fulfilled", content |-> outcome.content,
          personalizedMessage |-> PersonalizedMessage(outcome.content)]
    ELSE [state |-> "rejected", content |-> outcome.content,
          personalizedMessage |-> <<>>]

\* {...investor, personalizedMessage}
WithMessage(investor, msg) ==
  [_id |-> investor._id, name |-> investor.name,
   industries |-> investor.industries,
   dm_open_status |-> investor.dm_open_status,
   twitter_url |-> investor.twitter_url, username |-> investor.username,
   _score |-> investor._score, personalizedMessage |-> msg]

\* PromiseAll collecting the values in the order the branches settled.
PromiseAllByCompletion(top, br, order) ==
  [i \in 1..Len(top) |->
     WithMessage(top[order[i]], br[order[i]].personalizedMessage)]

\* The value Promise.all resolves to once every branch is fulfilled: the
\* branches' values by position in the input array.  `order` is the order in
\* which the branches settled.
PromiseAll(top, br, order) ==
  [i \in 1..Len(top) |-> WithMessage(top[i], br[i].personalizedMessage)]

\* The left operand of `||` is taken when it is truthy: a string that is
\* present and not empty.
Truthy(v) == v # Missing /\ v # ""

\* dmPayload
DmPayload(withMessages) ==
  [i \in 1..Len(withMessages) |->
     [twitterUrl |->
        IF Truthy(withMessages[i].twitter_url)
          THEN withMessages[i].twitter_url
          ELSE ProfileUrl(withMessages[i].username),
      message |-> withMessages[i].personalizedMessage]]

(***************************************************************************)
(* State of one run of findRelevantInvestors.                              *)
(***************************************************************************)
VARIABLES
  args,              \* the action's arguments
  openaiApiKey,      \* whether process.env.OPENAI_API_KEY is set
  store,             \* the investors table: id -> document or Null
  pc,                \* the await the handler is suspended at
  error,             \* the error the handler threw
  calls,             \* external calls issued so far, per capability
  extractResponse,   \* what the extraction provider answered
  founderSummary,
  embeddingInput,    \* the input of the embeddings.create call
  founderEmbedding,  \* length of the vector the provider returned
  searchVector,      \* length of the vector given to ctx.vectorSearch
  searchResults,
  idx,               \* position of the for loop in searchResults
  lookups,           \* what each settled getById gave, in order
  investorsWithData,
  topInvestors,
  branches,          \* the promises of Step 5, by position
  completionOrder,   \* the positions in the order the promises settled
  result             \* the value the handler returned

runVars ==
  <<args, openaiApiKey, store, pc, error, calls, extractResponse,
    founderSummary, embeddingInput, founderEmbedding, searchVector,
    searchResults, idx, lookups, investorsWithData, topInvestors, branches,
    completionOrder, result>>

(***************************************************************************)
(* State of the programs around the action: the calls of upsertByTwitter   *)
(* that have committed, the page (src/src/app/page.tsx), the ingestion     *)
(* script (src/scripts/embed_investors.ts) and the summarize route         *)
(* (src/unnamed/part_006).                                                 *)
(***************************************************************************)
VARIABLES
  upsertLog          \* the committed upsertByTwitter calls: arguments, id

ingestVars == <<upsertLog>>

VARIABLES
  form,              \* aboutYou, aboutStartup, selectedIndustries
  isLoading,
  isSending,
  results,           \* "null" or what findInvestors returned
  dmResult,          \* "null" or the JSON the backend answered
  pagePc,            \* the await handleSubmit is suspended at
  findOutcome,       \* how the findInvestors call of the submission ended
  respOk,            \* resp.ok of the awaited fetch
  sends,             \* fetches of /send-messages issued by the submission
  cleared            \* clearForm has run and no submission started since

pageVars ==
  <<form, isLoading, isSending, results, dmResult, pagePc, findOutcome,
    respOk, sends, cleared>>

VARIABLES
  scriptRaw,         \* the investors of the input file: can_dm of each
  scriptPc,          \* the await main is suspended at
  batchStart,        \* i of the for loop, counted from 1
  totalProcessed,
  totalErrors,
  upsertPending,     \* the investors of the batch whose upsert is in flight
  tallied            \* per investor, how often a counter was raised for it

scriptVars ==
  <<scriptRaw, scriptPc, batchStart, totalProcessed, totalErrors,
    upsertPending, tallied>>

VARIABLES
  routeReq,          \* the request of the summarize route
  routePc,           \* the await POST is suspended at
  routeResponses,    \* the responses POST has returned
  routeGenCalls,     \* calls of generateObject made by POST
  routeThrew         \* POST has let an exception out

routeVars == <<routeReq, routePc, routeResponses, routeGenCalls, routeThrew>>

\* Everything that no step of a run of the action touches.
outsideRun == <<ingestVars, pageVars, scriptVars, routeVars>>

vars == <<runVars, outsideRun>>

\* No other program has done anything yet.
EmptyForm == [aboutYou |-> <<>>, aboutStartup |-> <<>>, selectedIndustries |-> <<>>]

\* The page as its useState calls set it up.
PageIdle ==
  /\ form = EmptyForm
  /\ isLoading = FALSE
  /\ isSending = FALSE
  /\ results = "null"
  /\ dmResult = "null"
  /\ pagePc = "idle"
  /\ findOutcome = "none"
  /\ respOk = FALSE
  /\ sends = 0
  /\ cleared = FALSE

\* main has not been started.
ScriptIdle ==
  /\ scriptRaw = <<>>
  /\ scriptPc = "idle"
  /\ batchStart = 1
  /\ totalProcessed = 0
  /\ totalErrors = 0
  /\ upsertPending = {}
  /\ tallied = <<>>

NoRequest == [body |-> "none"]

\* No request has come in.
RouteIdle ==
  /\ routeReq = NoRequest
  /\ routePc = "idle"
  /\ routeResponses = <<>>
  /\ routeGenCalls = 0
  /\ routeThrew = FALSE

OutsideRunIdle ==
  /\ upsertLog = <<>>
  /\ PageIdle
  /\ ScriptIdle
  /\ RouteIdle

InputTexts == {<<>>, Sp(2), Ch(1), Sp(1) \o Ch(1) \o Sp(1), Ch(LongLen)}

InputIndustries == {<<>>, <<"AI">>, <<"Consumer", "AI">>, <<"">>}

NoError == [at |-> "none", message |-> ""]

NoResponse == [kind |-> "none", object |-> Undefined, message |-> ""]

NoResult ==
  [summary |-> Undefined, investors |-> <<>>, dmPayload |-> <<>>,
   totalFound |-> 0 - 1]

NoCalls == [extract |-> 0, embed |-> 0, search |-> 0, lookup |-> 0, generate |-> 0]

\* The handler's own state when the action is called.
InitRun ==
  /\ pc = "start"
  /\ error = NoError
  /\ calls = NoCalls
  /\ extractResponse = NoResponse
  /\ founderSummary = Undefined
  /\ embeddingInput = <<>>
  /\ founderEmbedding = 0
  /\ searchVector = 0
  /\ searchResults = <<>>
  /\ idx = 0
  /\ lookups = <<>>
  /\ investorsWithData = <<>>
  /\ topInvestors = <<>>
  /\ branches = <<>>
  /\ completionOrder = <<>>
  /\ result = NoResult
  /\ OutsideRunIdle

\* The table the run finds: empty, as before any ingestion, or holding
\* the ingested documents.
Tables == {<<>>, [i \in Ids |-> InvestorDoc(i)]}

Init ==
  /\ args \in [aboutYou : InputTexts, aboutStartup : InputTexts,
               selectedIndustries : InputIndustries]
  /\ openaiApiKey \in BOOLEAN
  /\ store \in Tables
  /\ InitRun

\* Throw with the error caught and logged, the handler going on.
ThrowLogged(at, msg) ==
  /\ pc' = pc
  /\ error' = [at |-> at, message |-> msg]

\* throw: the action ends with this error.
Throw(at, msg) ==
  /\ pc' = "failed"
  /\ error' = [at |-> at, message |-> msg]

\* ValidationError without the check of selectedIndustries.
ValidationErrorTextsOnly(a, key) ==
  IF Trim(a.aboutYou) = <<>> \/ Trim(a.aboutStartup) = <<>>
    THEN "Both 'about you' and 'about startup' fields are required"
  ELSE IF ~key
    THEN "OPENAI_API_KEY not configured in Convex environment"
  ELSE ""

\* The input checks at the head of the handler: the message of the error
\* they throw, "" when the input passes.
ValidationError(a, key) ==
  IF Trim(a.aboutYou) = <<>> \/ Trim(a.aboutStartup) = <<>>
    THEN "Both 'about you' and 'about startup' fields are required"
  ELSE IF Len(a.selectedIndustries) = 0
    THEN "At least one industry must be selected"
  ELSE IF ~key
    THEN "OPENAI_API_KEY not configured in Convex environment"
  ELSE ""

\* From the call of the action to the await of generateObject.
Start ==
  /\ pc = "start"
  /\ IF ValidationError(args, openaiApiKey) # ""
       THEN /\ Throw("validate", ValidationError(args, openaiApiKey))
            /\ calls' = calls
       ELSE /\ pc' = "extracting"
            /\ error' = error
            /\ calls' = [calls EXCEPT !.extract = @ + 1]
  /\ UNCHANGED <<outsideRun, args, openaiApiKey, store, extractResponse, founderSummary,
                 embeddingInput, founderEmbedding, searchVector,
                 searchResults, idx, lookups, investorsWithData, topInvestors,
                 branches, completionOrder, result>>

\* generateObject settles: the try/catch, then embeddingText and the call of
\* openai.embeddings.create.
ExtractReturns ==
  /\ pc = "extracting"
  /\ \E resp \in ExtractionResponses :
       LET h == HandleExtraction(args, resp) IN
       /\ extractResponse' = resp
       /\ IF h.threw
            THEN /\ Throw("extract", h.message)
                 /\ UNCHANGED <<founderSummary, embeddingInput, calls>>
            ELSE /\ founderSummary' = h.founderSummary
                 /\ embeddingInput' =
                      EmbeddingInput(h.founderSummary, args.selectedIndustries)
                 /\ calls' = [calls EXCEPT !.embed = @ + 1]
                 /\ pc' = "embedding"
                 /\ error' = error
  /\ UNCHANGED <<outsideRun, args, openaiApiKey, store, founderEmbedding, searchVector,
                 searchResults, idx, lookups, investorsWithData, topInvestors,
                 branches, completionOrder, result>>


\* What the embedding provider may do with one request: a vector of the
\* requested length, a vector of another length, or a failure.
EmbeddingOutcomes ==
  [kind : {"ok"}, length : {Dimensions, Dimensions - 1}]
    \cup [kind : {"error"}, length : {0}]

\* EmbedReturns with one more try of embeddings.create after a failure.
EmbedReturnsRetrying ==
  /\ pc = "embedding"
  /\ \E out \in EmbeddingOutcomes :
       IF out.kind = "error"
         THEN IF calls.embed < 2
                THEN /\ calls' = [calls EXCEPT !.embed = @ + 1]
                     /\ UNCHANGED <<pc, error, founderEmbedding, searchVector>>
                ELSE /\ Throw("embed", "embeddings.create failed")
                     /\ UNCHANGED <<founderEmbedding, searchVector, calls>>
         ELSE /\ founderEmbedding' = out.length
              /\ searchVector' = out.length
              /\ calls' = [calls EXCEPT !.search = @ + 1]
              /\ pc' = "searching"
              /\ error' = error
  /\ UNCHANGED <<outsideRun, args, openaiApiKey, store, extractResponse, founderSummary,
                 embeddingInput, searchResults, idx, lookups, investorsWithData,
                 topInvestors, branches, completionOrder, result>>

\* embeddings.create settles: founderEmbedding, then the call of
\* ctx.vectorSearch with it.
EmbedReturns ==
  /\ pc = "embedding"
  /\ \E out \in EmbeddingOutcomes :
       IF out.kind = "error"
         THEN /\ Throw("embed", "embeddings.create failed")
              /\ UNCHANGED <<founderEmbedding, searchVector, calls>>
         ELSE /\ founderEmbedding' = out.length
              /\ searchVector' = out.length
              /\ calls' = [calls EXCEPT !.search = @ + 1]
              /\ pc' = "searching"
              /\ error' = error
  /\ UNCHANGED <<outsideRun, args, openaiApiKey, store, extractResponse, founderSummary,
                 embeddingInput, searchResults, idx, lookups, investorsWithData,
                 topInvestors, branches, completionOrder, result>>

\* What ctx.vectorSearch may answer: the index (dimensions: 1024) takes no
\* vector of another length.
SearchOutcomes(db, vectorLength) ==
  [kind : {"error"}, results : {<<>>}]
    \cup IF vectorLength = Dimensions
           THEN [kind : {"ok"}, results : VectorSearch(db, SearchLimit)]
           ELSE {}

\* FanOut that throws when no investor is left.
FanOutThrowsOnEmpty(withData, limit) ==
  LET top == TopInvestors(withData, limit) IN
  /\ topInvestors' = top
  /\ IF Len(top) = 0
       THEN /\ branches' = <<>>
            /\ calls' = calls
            /\ Throw("compose", "No matching investors found")
       ELSE /\ branches' = [i \in 1..Len(top) |-> Pending]
            /\ calls' = [calls EXCEPT !.generate = @ + Len(top)]
            /\ pc' = "composing"
            /\ error' = error

\* The end of Step 4 and the start of Step 5: slice, then topInvestors.map
\* runs every callback up to its awaited chat.completions.create.  The
\* prompt template reads fields of founderSummary: on an undefined summary
\* every callback throws a TypeError before its call, Promise.all rejects
\* and the handler throws.
FanOut(withData, limit) ==
  LET top == TopInvestors(withData, limit) IN
  /\ topInvestors' = top
  /\ IF founderSummary = Undefined /\ Len(top) > 0
       THEN /\ branches' =
                 [i \in 1..Len(top) |->
                    [state |-> "rejected", content |-> Content(FALSE, <<>>),
                     personalizedMessage |-> <<>>]]
            /\ calls' = calls
            /\ Throw("compose", "TypeError: Cannot read properties of undefined")
       ELSE /\ branches' = [i \in 1..Len(top) |-> Pending]
            /\ calls' = [calls EXCEPT !.generate = @ + Len(top)]
            /\ pc' = "composing"
            /\ error' = error

\* ctx.vectorSearch settles: the first getById of the loop, or, with no
\* result, straight on to Step 5.
SearchSettles(limit) ==
  /\ pc = "searching"
  /\ \E out \in SearchOutcomes(store, searchVector) :
       IF out.kind = "error"
         THEN /\ Throw("search", "vectorSearch failed")
              /\ UNCHANGED <<searchResults, idx, topInvestors, branches, calls>>
         ELSE /\ searchResults' = out.results
              /\ IF Len(out.results) = 0
                   THEN /\ FanOut(investorsWithData, limit)
                        /\ idx' = idx
                   ELSE /\ idx' = 1
                        /\ calls' = [calls EXCEPT !.lookup = @ + 1]
                        /\ pc' = "hydrating"
                        /\ UNCHANGED <<error, topInvestors, branches>>
  /\ UNCHANGED <<outsideRun, args, openaiApiKey, store, extractResponse, founderSummary,
                 embeddingInput, founderEmbedding, searchVector, lookups,
                 investorsWithData, completionOrder, result>>

SearchReturns == SearchSettles(ResultLimit)

\* What one ctx.runQuery(getById) may give: the document of the id as the
\* table holds it now (Null when there is none), or a failure of the call.
LookupOutcomes(db, id) ==
  [kind : {"ok"}, doc : {GetById(db, id)}]
    \cup [kind : {"error"}, doc : {Null}]

\* LookupFailed for a getById that treats a missing document as an error.
LookupFailedOrMissing(out) == out.kind = "error" \/ out.doc = Null

\* `await ctx.runQuery(...)` throws when the call rejects, and only then.
LookupFailed(out) == out.kind = "error"

\* LookupSettles with the generation call of a kept investor issued inside
\* the loop, before the next getById.
LookupSettlesGenerating(limit) ==
  /\ pc = "hydrating"
  /\ \E out \in LookupOutcomes(store, searchResults[idx]._id) :
       /\ lookups' = Append(lookups, out)
       /\ store' = StoreAfterGetById(store, searchResults[idx]._id)
       /\ IF LookupFailed(out)
            THEN /\ Throw("lookup", "getById failed")
                 /\ UNCHANGED <<idx, investorsWithData, topInvestors,
                                branches, calls>>
            ELSE LET res == searchResults[idx]
                     withData == PushIfMatching(investorsWithData, out.doc,
                                                res, args.selectedIndustries)
                 IN /\ investorsWithData' = withData
                    /\ IF idx < Len(searchResults)
                         THEN /\ idx' = idx + 1
                              /\ calls' =
                                   [calls EXCEPT
                                      !.lookup = @ + 1,
                                      !.generate =
                                        @ + Len(withData) - Len(investorsWithData)]
                              /\ UNCHANGED <<pc, error, topInvestors, branches>>
                         ELSE /\ FanOut(withData, limit)
                              /\ idx' = idx
  /\ UNCHANGED <<outsideRun, args, openaiApiKey, extractResponse, founderSummary,
                 embeddingInput, founderEmbedding, searchVector,
                 searchResults, completionOrder, result>>

\* One ctx.runQuery(getById) settles: the rest of the loop body, then the
\* next getById or, after the last one, Step 5.
LookupSettles(limit) ==
  /\ pc = "hydrating"
  /\ \E out \in LookupOutcomes(store, searchResults[idx]._id) :
       /\ lookups' = Append(lookups, out)
       /\ store' = StoreAfterGetById(store, searchResults[idx]._id)
       /\ IF LookupFailed(out)
            THEN /\ Throw("lookup", "getById failed")
                 /\ UNCHANGED <<idx, investorsWithData, topInvestors,
                                branches, calls>>
            ELSE LET res == searchResults[idx]
                     withData == PushIfMatching(investorsWithData, out.doc,
                                                res, args.selectedIndustries)
                 IN /\ investorsWithData' = withData
                    /\ IF idx < Len(searchResults)
                         THEN /\ idx' = idx + 1
                              /\ calls' = [calls EXCEPT !.lookup = @ + 1]
                              /\ UNCHANGED <<pc, error, topInvestors, branches>>
                         ELSE /\ FanOut(withData, limit)
                              /\ idx' = idx
  /\ UNCHANGED <<outsideRun, args, openaiApiKey, extractResponse, founderSummary,
                 embeddingInput, founderEmbedding, searchVector,
                 searchResults, completionOrder, result>>

LookupReturns == LookupSettles(ResultLimit)

\* How the awaited Promise.all takes one branch settling: the first
\* rejection rejects it, and the handler throws.
AfterSettle(branch) ==
  IF branch.state = "rejected" /\ pc = "composing"
    THEN Throw("generate", "chat.completions.create failed")
    ELSE UNCHANGED <<pc, error>>

\* One chat.completions.create settles, in any order among the branches;
\* the branches still in flight after the handler threw settle as well.
GenerateReturns ==
  /\ pc \in {"composing", "failed"}
  /\ \E i \in 1..Len(branches) :
       /\ branches[i].state = "pending"
       /\ \E out \in GenerationOutcomes :
            /\ branches' = [branches EXCEPT ![i] = BranchSettled(out)]
            /\ completionOrder' = Append(completionOrder, i)
            /\ AfterSettle(BranchSettled(out))
  /\ UNCHANGED <<outsideRun, args, openaiApiKey, store, calls, extractResponse,
                 founderSummary, embeddingInput, founderEmbedding,
                 searchVector, searchResults, idx, lookups, investorsWithData,
                 topInvestors, result>>

\* Promise.all resolves: dmPayload and the return statement.
Join ==
  /\ pc = "composing"
  /\ \A i \in 1..Len(branches) : branches[i].state = "fulfilled"
  /\ LET withMessages == PromiseAll(topInvestors, branches, completionOrder) IN
     result' = [summary |-> founderSummary,
                investors |-> withMessages,
                dmPayload |-> DmPayload(withMessages),
                totalFound |-> Len(withMessages)]
  /\ pc' = "done"
  /\ UNCHANGED <<outsideRun, args, openaiApiKey, store, error, calls, extractResponse,
                 founderSummary, embeddingInput, founderEmbedding,
                 searchVector, searchResults, idx, lookups, investorsWithData,
                 topInvestors, branches, completionOrder>>

Next ==
  \/ Start
  \/ ExtractReturns
  \/ EmbedReturns
  \/ SearchReturns
  \/ LookupReturns
  \/ GenerateReturns
  \/ Join

Spec == Init /\ [][Next]_vars


(***************************************************************************)
(* The revision of the action in src/unnamed/part_002 (lines 11-211): the  *)
(* schema holds the summary alone, the catch block logs and goes on, the   *)
(* embedding text is the summary, and up to 100 investors are kept.        *)
(***************************************************************************)
\* src/convex/lib/summarySchema.ts
MatchesSchemaP2(o) ==
  /\ TextLen(o.summary) >= SummaryMin
  /\ TextLen(o.summary) <= SummaryMax

SummaryOnly(text) == Summary(text, <<>>, "", <<>>, <<>>)

RawModelOutputsP2 ==
  { SummaryOnly(Ch(SummaryMin)), SummaryOnly(Ch(SummaryMax)),
    SummaryOnly(Ch(SummaryMin - 1)) }

ExtractionResponsesP2 ==
  [kind : {"object"}, object : RawModelOutputsP2, message : {""}]
    \cup [kind : {"error"}, object : {Undefined}, message : ExtractionErrorMessages]

\* part_002 lines 54-69: `let founderSummary`, try { ... } catch (error)
\* { console.error(...) }
HandleExtractionP2(resp) ==
  IF resp.kind = "object" /\ MatchesSchemaP2(resp.object)
    THEN resp.object
    ELSE Undefined

\* part_002 lines 76-80: (founderSummary?.summary || '').trim()
EmbeddingInputP2(fs) ==
  IF fs = Undefined THEN <<>> ELSE Trim(fs.summary)

ExtractReturnsP2 ==
  /\ pc = "extracting"
  /\ \E resp \in ExtractionResponsesP2 :
       /\ extractResponse' = resp
       /\ founderSummary' = HandleExtractionP2(resp)
       /\ embeddingInput' = EmbeddingInputP2(HandleExtractionP2(resp))
       /\ calls' = [calls EXCEPT !.embed = @ + 1]
       /\ pc' = "embedding"
  /\ UNCHANGED <<outsideRun, args, openaiApiKey, store, error, founderEmbedding,
                 searchVector, searchResults, idx, lookups, investorsWithData,
                 topInvestors, branches, completionOrder, result>>

SearchReturnsP2 == SearchSettles(ResultLimitP2)

LookupReturnsP2 == LookupSettles(ResultLimitP2)

NextP2 ==
  \/ Start
  \/ ExtractReturnsP2
  \/ EmbedReturns
  \/ SearchReturnsP2
  \/ LookupReturnsP2
  \/ GenerateReturns
  \/ Join

SpecP2 == Init /\ [][NextP2]_vars


(***************************************************************************)
(* The investors table while a run is in flight.  Every await of the       *)
(* action is a point where other transactions commit: upsertByTwitter      *)
(* (src/convex/investors.ts lines 4-79), called by the ingestion script,   *)
(* and the removal of a document.  Writes before the vector search amount  *)
(* to another table at the start and writes after the last getById are not *)
(* seen by the run, so the writes are taken between the two.               *)
(***************************************************************************)
MaxStoreWrites == 1

\* .withIndex("byTwitter", q => q.eq("twitter_url", url)).first(): the id of
\* the oldest document with that twitter_url, 0 for null.
FirstByTwitter(db, url) ==
  LET m == {i \in DOMAIN db : db[i] # Null /\ db[i].twitter_url = url}
  IN IF m = {} THEN 0 ELSE CHOOSE i \in m : \A j \in m : i <= j

\* .withIndex("byUsername", q => q.eq("username", name)).first()
FirstByUsername(db, name) ==
  LET m == {i \in DOMAIN db : db[i] # Null /\ db[i].username = name}
  IN IF m = {} THEN 0 ELSE CHOOSE i \in m : \A j \in m : i <= j

\* Existing without the lookups by twitter_url: by username alone.
ExistingByUsername(db, a) ==
  IF Truthy(a.username) THEN FirstByUsername(db, a.username) ELSE 0

\* `existing` of upsertByTwitter: by twitter_url, then by the URL made of
\* the username, then by username; 0 for null.
Existing(db, a) ==
  LET byUrl == IF Truthy(a.twitter_url)
                 THEN FirstByTwitter(db, a.twitter_url) ELSE 0
      byMadeUrl == IF Truthy(a.username)
                     THEN FirstByTwitter(db, ProfileUrl(a.username)) ELSE 0
      byName == IF Truthy(a.username)
                  THEN FirstByUsername(db, a.username) ELSE 0
  IN IF byUrl # 0 THEN byUrl
     ELSE IF byMadeUrl # 0 THEN byMadeUrl
     ELSE byName

\* The document with the fields of the arguments under the given id.
DocOf(id, a) ==
  [_id |-> id, name |-> a.name, industries |-> a.industries,
   dm_open_status |-> a.dm_open_status,
   twitter_url |-> a.twitter_url, username |-> a.username]

\* The table after upsertByTwitter(a): ctx.db.patch of the existing
\* document, or ctx.db.insert under a fresh id.
UpsertByTwitter(db, a) ==
  IF Existing(db, a) # 0
    THEN [db EXCEPT ![Existing(db, a)] = DocOf(Existing(db, a), a)]
    ELSE LET id == Cardinality(DOMAIN db) + 1
         IN [i \in DOMAIN db \cup {id} |->
               IF i = id THEN DocOf(id, a) ELSE db[i]]

\* The arguments of a new ingestion of a document's investor, who has
\* closed their DMs since.
ReIngested(doc) ==
  [twitter_url |-> doc.twitter_url, username |-> doc.username,
   name |-> doc.name, industries |-> doc.industries,
   dm_open_status |-> "closed"]

\* The arguments the ingestion side calls upsertByTwitter with: investors
\* the table knows by twitter_url (1) or by username alone (2), and one it
\* does not know, who has neither.
UpsertArgs ==
  { ReIngested(InvestorDoc(1)), ReIngested(InvestorDoc(2)),
    [twitter_url |-> Missing, username |-> Missing, name |-> "Investor",
     industries |-> <<"Consumer">>, dm_open_status |-> "open"] }

\* How many documents are not as the table held them at the start.
StoreWrites(db) ==
  Cardinality({i \in DOMAIN db : i \notin Ids \/ db[i] # InvestorDoc(i)})

\* A call of upsertByTwitter commits while the run waits on a getById.
Upsert ==
  /\ pc = "hydrating"
  /\ StoreWrites(store) < MaxStoreWrites
  /\ \E a \in UpsertArgs : store' = UpsertByTwitter(store, a)
  /\ UNCHANGED <<outsideRun, args, openaiApiKey, pc, error, calls, extractResponse,
                 founderSummary, embeddingInput, founderEmbedding,
                 searchVector, searchResults, idx, lookups, investorsWithData,
                 topInvestors, branches, completionOrder, result>>

\* A document is removed while the run waits on a getById.
DocumentDeleted ==
  /\ pc = "hydrating"
  /\ StoreWrites(store) < MaxStoreWrites
  /\ \E id \in DOMAIN store :
       /\ store[id] # Null
       /\ store' = [store EXCEPT ![id] = Null]
  /\ UNCHANGED <<outsideRun, args, openaiApiKey, pc, error, calls, extractResponse,
                 founderSummary, embeddingInput, founderEmbedding,
                 searchVector, searchResults, idx, lookups, investorsWithData,
                 topInvestors, branches, completionOrder, result>>

InitStore ==
  /\ args = [aboutYou |-> Ch(1), aboutStartup |-> Ch(1),
             selectedIndustries |-> <<"Consumer">>]
  /\ openaiApiKey = TRUE
  /\ store = [i \in Ids |-> InvestorDoc(i)]
  /\ InitRun

NextStore ==
  \/ Next
  \/ Upsert
  \/ DocumentDeleted

SpecStore == InitStore /\ [][NextStore]_vars


(***************************************************************************)
(* A run over a table with more matching investors than the action keeps,  *)
(* and with every shape of contact fields the table's schema allows.       *)
(***************************************************************************)
NumMatching == 4

\* twitter_url and username are both optional: a document has both, the
\* username alone, neither, or the twitter_url alone.
MatchingDoc(i) ==
  [_id |-> i,
   name |-> "Investor",
   industries |-> <<"AI">>,
   dm_open_status |-> "open",
   twitter_url |-> IF i % 4 \in {0, 1} THEN ProfileUrl(UserName(i)) ELSE Missing,
   username |-> IF i % 4 \in {1, 2} THEN UserName(i) ELSE Missing]

InitTopK ==
  /\ args = [aboutYou |-> Ch(1), aboutStartup |-> Ch(1),
             selectedIndustries |-> <<"AI">>]
  /\ openaiApiKey = TRUE
  /\ store = [i \in 1..NumMatching |-> MatchingDoc(i)]
  /\ InitRun

SpecTopK == InitTopK /\ [][Next]_vars


(***************************************************************************)
(* The ingestion side alone: calls of upsertByTwitter, each one a          *)
(* transaction, on a table that starts empty.                              *)
(***************************************************************************)
MaxUpserts == 4

\* The id upsertByTwitter(a) returns: existing._id, or the id of the insert.
UpsertId(db, a) ==
  IF Existing(db, a) # 0 THEN Existing(db, a) ELSE Cardinality(DOMAIN db) + 1

\* Arguments of upsertByTwitter: twitter_url absent, empty, the profile URL
\* of a username, or another one; username absent or present.
IngestArgs ==
  [twitter_url : {Missing, "", ProfileUrl(UserName(1)), ProfileUrl(UserName(2))},
   username : {Missing, UserName(1), UserName(2)},
   name : {"Investor"},
   industries : {<<"AI">>},
   dm_open_status : {"open"}]

\* One call of upsertByTwitter commits.
IngestUpsert ==
  /\ Len(upsertLog) < MaxUpserts
  /\ \E a \in IngestArgs :
       /\ store' = UpsertByTwitter(store, a)
       /\ upsertLog' = Append(upsertLog, [args |-> a, id |-> UpsertId(store, a)])
  /\ UNCHANGED <<pageVars, scriptVars, routeVars,
                 args, openaiApiKey, pc, error, calls, extractResponse,
                 founderSummary, embeddingInput, founderEmbedding,
                 searchVector, searchResults, idx, lookups, investorsWithData,
                 topInvestors, branches, completionOrder, result>>

InitIngest ==
  /\ args = [aboutYou |-> Ch(1), aboutStartup |-> Ch(1),
             selectedIndustries |-> <<"AI">>]
  /\ openaiApiKey = TRUE
  /\ store = <<>>
  /\ InitRun

NextIngest == IngestUpsert

SpecIngest == InitIngest /\ [][NextIngest]_vars


(***************************************************************************)
(* The page: handleSubmit and clearForm of src/src/app/page.tsx.  The      *)
(* submit button is disabled while isLoading; Clear and the inputs are      *)
(* always live.                                                            *)
(***************************************************************************)
\* Every program at rest and the table empty.
InitIdle ==
  /\ args = [aboutYou |-> Ch(1), aboutStartup |-> Ch(1),
             selectedIndustries |-> <<"AI">>]
  /\ openaiApiKey = TRUE
  /\ store = <<>>
  /\ InitRun

FormValues ==
  [aboutYou : {<<>>, Sp(1), Ch(1)}, aboutStartup : {<<>>, Ch(1)},
   selectedIndustries : {<<>>, <<"Data & AI">>}]

\* The validation at the head of handleSubmit passes.
FormValid(f) ==
  /\ Trim(f.aboutYou) # <<>>
  /\ Trim(f.aboutStartup) # <<>>
  /\ Len(f.selectedIndustries) # 0

\* onChange of a textarea or of a checkbox.
Edit ==
  /\ \E f \in FormValues : f # form /\ form' = f
  /\ UNCHANGED <<isLoading, isSending, results, dmResult, pagePc,
                 findOutcome, respOk, sends, cleared>>
  /\ UNCHANGED <<runVars, ingestVars, scriptVars, routeVars>>

\* onSubmit: the validation, then the state resets and the call of
\* findInvestors.
Submit ==
  /\ ~isLoading
  /\ sends' = 0
  /\ cleared' = FALSE
  /\ IF FormValid(form)
       THEN /\ isLoading' = TRUE
            /\ results' = "null"
            /\ dmResult' = "null"
            /\ pagePc' = "finding"
            /\ findOutcome' = "pending"
       ELSE /\ findOutcome' = "invalid"
            /\ UNCHANGED <<isLoading, results, dmResult, pagePc>>
  /\ UNCHANGED <<form, isSending, respOk>>
  /\ UNCHANGED <<runVars, ingestVars, scriptVars, routeVars>>

\* findInvestors settles: setResults, setIsSending(true) and the awaited
\* fetch, or the outer catch and finally.
FindReturns ==
  /\ pagePc = "finding"
  /\ \E ok \in BOOLEAN :
       IF ok
         THEN /\ findOutcome' = "ok"
              /\ results' = "result"
              /\ isSending' = TRUE
              /\ sends' = sends + 1
              /\ pagePc' = "sending"
              /\ UNCHANGED isLoading
         ELSE /\ findOutcome' = "error"
              /\ isLoading' = FALSE
              /\ pagePc' = "idle"
              /\ UNCHANGED <<results, isSending, sends>>
  /\ UNCHANGED <<form, dmResult, respOk, cleared>>
  /\ UNCHANGED <<runVars, ingestVars, scriptVars, routeVars>>

\* The awaited fetch settles: on to resp.text(), or, when it rejects, the
\* inner finally, the outer catch and the outer finally.
FetchReturns ==
  /\ pagePc = "sending"
  /\ \E out \in {"ok", "http error", "rejects"} :
       IF out = "rejects"
         THEN /\ isSending' = FALSE
              /\ isLoading' = FALSE
              /\ pagePc' = "idle"
              /\ UNCHANGED respOk
         ELSE /\ respOk' = (out = "ok")
              /\ pagePc' = "reading"
              /\ UNCHANGED <<isSending, isLoading>>
  /\ UNCHANGED <<form, results, dmResult, findOutcome, sends, cleared>>
  /\ UNCHANGED <<runVars, ingestVars, scriptVars, routeVars>>

\* TextReturns without the inner finally on the path of an exception.
TextReturnsNoFinally ==
  /\ pagePc = "reading"
  /\ \E out \in {"json", "no json", "rejects"} :
       IF out = "rejects"
         THEN /\ isLoading' = FALSE
              /\ pagePc' = "idle"
              /\ UNCHANGED <<isSending, dmResult, sends>>
         ELSE /\ dmResult' = IF respOk /\ out = "json" THEN "json" ELSE dmResult
              /\ isSending' = FALSE
              /\ sends' = sends + 1
              /\ isLoading' = FALSE
              /\ pagePc' = "idle"
  /\ UNCHANGED <<form, results, findOutcome, respOk, cleared>>
  /\ UNCHANGED <<runVars, ingestVars, scriptVars, routeVars>>

\* resp.text() settles: JSON.parse, the branches on resp.ok and json, the
\* inner finally, the second fetch (not awaited) and the outer finally.
TextReturns ==
  /\ pagePc = "reading"
  /\ \E out \in {"json", "no json", "rejects"} :
       IF out = "rejects"
         THEN /\ isSending' = FALSE
              /\ isLoading' = FALSE
              /\ pagePc' = "idle"
              /\ UNCHANGED <<dmResult, sends>>
         ELSE /\ dmResult' = IF respOk /\ out = "json" THEN "json" ELSE dmResult
              /\ isSending' = FALSE
              /\ sends' = sends + 1
              /\ isLoading' = FALSE
              /\ pagePc' = "idle"
  /\ UNCHANGED <<form, results, findOutcome, respOk, cleared>>
  /\ UNCHANGED <<runVars, ingestVars, scriptVars, routeVars>>

\* onClick of Clear.
ClearForm ==
  /\ form' = EmptyForm
  /\ results' = "null"
  /\ dmResult' = "null"
  /\ cleared' = TRUE
  /\ UNCHANGED <<isLoading, isSending, pagePc, findOutcome, respOk, sends>>
  /\ UNCHANGED <<runVars, ingestVars, scriptVars, routeVars>>

NextPage ==
  \/ Edit
  \/ Submit
  \/ FindReturns
  \/ FetchReturns
  \/ TextReturns
  \/ ClearForm

SpecPage == InitIdle /\ [][NextPage]_vars


(***************************************************************************)
(* The ingestion script: main of src/scripts/embed_investors.ts.  The      *)
(* batches are BATCH_SIZE investors long (20 in the script); the loop is   *)
(* the same for any size, and a small one keeps several batches in reach.  *)
(***************************************************************************)
NumRaw == 3

BatchSize == 2

\* dm_check_result?.can_dm of an investor of the file.
CanDm == {"true", "false", "absent"}

RawFiles == [1..NumRaw -> CanDm]

RECURSIVE Eligible(_)
\* raw.filter(x => x.dm_check_result?.can_dm !== false): the positions in
\* the file of the investors kept, in order.
Eligible(raw) ==
  IF raw = <<>> THEN <<>>
  ELSE LET front == Eligible(SubSeq(raw, 1, Len(raw) - 1))
       IN IF raw[Len(raw)] # "false" THEN Append(front, Len(raw)) ELSE front

\* investors.slice(i, i + BATCH_SIZE), as positions in `investors`.
BatchOf(raw, start) ==
  {k \in 1..Len(Eligible(raw)) : k >= start /\ k < start + BatchSize}

\* The arguments of the upsert of the investor at a position of the file.
ScriptUpsertArgs(n) ==
  [twitter_url |-> ProfileUrl(UserName(n)), username |-> UserName(n),
   name |-> "Investor", industries |-> <<"AI">>, dm_open_status |-> "open"]

\* i += BATCH_SIZE and the loop test: the embeddings.create of the next
\* batch, or the end of main.
NextBatch(raw) ==
  /\ batchStart' = batchStart + BatchSize
  /\ scriptPc' = IF batchStart + BatchSize <= Len(Eligible(raw))
                   THEN "embedding" ELSE "done"

\* main: the file is read and filtered, the loop is entered.
ScriptStarts ==
  /\ scriptPc = "idle"
  /\ \E raw \in RawFiles :
       /\ scriptRaw' = raw
       /\ tallied' = [k \in 1..Len(Eligible(raw)) |-> 0]
       /\ scriptPc' = IF Len(Eligible(raw)) > 0 THEN "embedding" ELSE "done"
  /\ UNCHANGED <<batchStart, totalProcessed, totalErrors, upsertPending>>
  /\ UNCHANGED <<runVars, ingestVars, pageVars, routeVars>>

\* BatchEmbedReturns with a failed batch ending the loop.
BatchEmbedReturnsBreaking ==
  /\ scriptPc = "embedding"
  /\ \E ok \in BOOLEAN :
       LET slice == BatchOf(scriptRaw, batchStart) IN
       IF ok
         THEN /\ upsertPending' = slice
              /\ scriptPc' = "upserting"
              /\ UNCHANGED <<batchStart, totalErrors, tallied>>
         ELSE /\ totalErrors' = totalErrors + Cardinality(slice)
              /\ tallied' = [k \in DOMAIN tallied |->
                               IF k \in slice THEN tallied[k] + 1 ELSE tallied[k]]
              /\ scriptPc' = "done"
              /\ UNCHANGED <<batchStart, upsertPending>>
  /\ UNCHANGED <<scriptRaw, totalProcessed>>
  /\ UNCHANGED <<runVars, ingestVars, pageVars, routeVars>>

\* openai.embeddings.create of the batch settles: the upserts of the batch
\* are issued, or the catch counts the whole batch as errors.
BatchEmbedReturns ==
  /\ scriptPc = "embedding"
  /\ \E ok \in BOOLEAN :
       LET slice == BatchOf(scriptRaw, batchStart) IN
       IF ok
         THEN /\ upsertPending' = slice
              /\ scriptPc' = "upserting"
              /\ UNCHANGED <<batchStart, totalErrors, tallied>>
         ELSE /\ totalErrors' = totalErrors + Cardinality(slice)
              /\ tallied' = [k \in DOMAIN tallied |->
                               IF k \in slice THEN tallied[k] + 1 ELSE tallied[k]]
              /\ NextBatch(scriptRaw)
              /\ UNCHANGED upsertPending
  /\ UNCHANGED <<scriptRaw, totalProcessed>>
  /\ UNCHANGED <<runVars, ingestVars, pageVars, routeVars>>

\* One convex.mutation(upsertByTwitter) of the batch settles, in any order:
\* totalProcessed++ or, in the catch, totalErrors++; after the last one
\* Promise.all resolves and the loop goes on.
UpsertReturns ==
  /\ scriptPc = "upserting"
  /\ \E k \in upsertPending, ok \in BOOLEAN :
       /\ upsertPending' = upsertPending \ {k}
       /\ tallied' = [tallied EXCEPT ![k] = @ + 1]
       /\ IF ok
            THEN /\ totalProcessed' = totalProcessed + 1
                 /\ store' = UpsertByTwitter(store,
                                ScriptUpsertArgs(Eligible(scriptRaw)[k]))
                 /\ UNCHANGED totalErrors
            ELSE /\ totalErrors' = totalErrors + 1
                 /\ UNCHANGED <<totalProcessed, store>>
       /\ IF upsertPending \ {k} = {}
            THEN NextBatch(scriptRaw)
            ELSE UNCHANGED <<batchStart, scriptPc>>
  /\ UNCHANGED scriptRaw
  /\ UNCHANGED <<args, openaiApiKey, pc, error, calls, extractResponse,
                 founderSummary, embeddingInput, founderEmbedding,
                 searchVector, searchResults, idx, lookups, investorsWithData,
                 topInvestors, branches, completionOrder, result>>
  /\ UNCHANGED <<ingestVars, pageVars, routeVars>>

NextScript ==
  \/ ScriptStarts
  \/ BatchEmbedReturns
  \/ UpsertReturns

SpecScript == InitIdle /\ [][NextScript]_vars


(***************************************************************************)
(* The summarize route: POST of src/unnamed/part_006.  A request body is   *)
(* whatever the client sends: text that is not JSON, the JSON value null,  *)
(* or an object whose three fields are of any JSON type.                   *)
(***************************************************************************)
\* The values of aboutYou and aboutStartup: absent, null, a string, a number.
TextFieldValues ==
  {[kind |-> "undefined", text |-> <<>>], [kind |-> "null", text |-> <<>>],
   [kind |-> "number", text |-> <<>>]}
  \cup {[kind |-> "string", text |-> t] : t \in {<<>>, Sp(1), Ch(1)}}

\* The values of selectedIndustries: absent, null, an array, a string or a
\* number; len is the length of the array or string, the value of the number.
IndustriesFieldValues ==
  {[kind |-> "undefined", len |-> 0], [kind |-> "null", len |-> 0]}
  \cup {[kind |-> k, len |-> n] : k \in {"array", "string", "number"},
                                   n \in {0, 1}}

Requests ==
  {[body |-> "unparsable"], [body |-> "null"]}
  \cup {[body |-> "object", aboutYou |-> a, aboutStartup |-> b,
         selectedIndustries |-> i] :
          a \in TextFieldValues, b \in TextFieldValues,
          i \in IndustriesFieldValues}

\* v?.trim() throws a TypeError when v is neither nullish nor a string.
TrimThrows(v) == v.kind = "number"

\* !v?.trim(): nullish, or a string that is empty after trimming.
BlankField(v) ==
  \/ v.kind \in {"undefined", "null"}
  \/ v.kind = "string" /\ Trim(v.text) = <<>>

\* !selectedIndustries || selectedIndustries.length === 0
NoIndustries(i) ==
  \/ i.kind \in {"undefined", "null"}
  \/ i.kind \in {"array", "string", "number"} /\ i.len = 0

\* selectedIndustries.join(", ") throws a TypeError on what is not an array.
JoinThrows(i) == i.kind # "array"

RequiredFieldsResponse ==
  [status |-> 400,
   body |-> "Both 'about you' and 'about startup' fields are required"]

IndustryResponse ==
  [status |-> 400, body |-> "At least one industry must be selected"]

FailedResponse == [status |-> 500, body |-> "Failed to generate summary"]

SummaryResponse == [status |-> 200, body |-> "summary"]

\* No response yet: generateObject is called.
GenerateCall == [status |-> 0, body |-> "generateObject"]

\* What POST does between the end of req.json() and its next await, in the
\* order of the statements: a response, or the call of generateObject.
AfterJson(r) ==
  IF r.body # "object" THEN FailedResponse
  ELSE IF TrimThrows(r.aboutYou) THEN FailedResponse
  ELSE IF BlankField(r.aboutYou) THEN RequiredFieldsResponse
  ELSE IF TrimThrows(r.aboutStartup) THEN FailedResponse
  ELSE IF BlankField(r.aboutStartup) THEN RequiredFieldsResponse
  ELSE IF NoIndustries(r.selectedIndustries) THEN IndustryResponse
  ELSE IF JoinThrows(r.selectedIndustries) THEN FailedResponse
  ELSE GenerateCall

\* A request arrives: POST starts and awaits req.json().
Receive ==
  /\ routePc = "idle"
  /\ \E r \in Requests : routeReq' = r
  /\ routePc' = "parsing"
  /\ UNCHANGED <<routeResponses, routeGenCalls, routeThrew>>
  /\ UNCHANGED <<runVars, ingestVars, pageVars, scriptVars>>

\* JsonReturns with no catch around the body of POST.
JsonReturnsUncaught ==
  /\ routePc = "parsing"
  /\ LET next == AfterJson(routeReq) IN
       IF next = GenerateCall
         THEN /\ routeGenCalls' = routeGenCalls + 1
              /\ routePc' = "generating"
              /\ UNCHANGED <<routeResponses, routeThrew>>
         ELSE IF next = FailedResponse
         THEN /\ routeThrew' = TRUE
              /\ routePc' = "done"
              /\ UNCHANGED <<routeResponses, routeGenCalls>>
         ELSE /\ routeResponses' = Append(routeResponses, next)
              /\ routePc' = "done"
              /\ UNCHANGED <<routeGenCalls, routeThrew>>
  /\ UNCHANGED routeReq
  /\ UNCHANGED <<runVars, ingestVars, pageVars, scriptVars>>

\* req.json() settles: the validation answers, a thrown error is answered
\* by the catch, or generateObject is called.
JsonReturns ==
  /\ routePc = "parsing"
  /\ LET next == AfterJson(routeReq) IN
       IF next = GenerateCall
         THEN /\ routeGenCalls' = routeGenCalls + 1
              /\ routePc' = "generating"
              /\ UNCHANGED routeResponses
         ELSE /\ routeResponses' = Append(routeResponses, next)
              /\ routePc' = "done"
              /\ UNCHANGED routeGenCalls
  /\ UNCHANGED <<routeReq, routeThrew>>
  /\ UNCHANGED <<runVars, ingestVars, pageVars, scriptVars>>

\* generateObject settles: with an object of the schema, or rejected (an
\* API error, or an answer that does not validate against the schema).
GenerateObjectReturns ==
  /\ routePc = "generating"
  /\ \E outcome \in {"object", "apiError", "schemaMismatch"} :
       routeResponses' = Append(routeResponses,
                                IF outcome = "object" THEN SummaryResponse
                                ELSE FailedResponse)
  /\ routePc' = "done"
  /\ UNCHANGED <<routeReq, routeGenCalls, routeThrew>>
  /\ UNCHANGED <<runVars, ingestVars, pageVars, scriptVars>>

\* The next request (the route keeps no state between requests).
RouteNextRequest ==
  /\ routePc = "done"
  /\ routePc' = "idle"
  /\ routeReq' = NoRequest
  /\ routeResponses' = <<>>
  /\ routeGenCalls' = 0
  /\ routeThrew' = FALSE
  /\ UNCHANGED <<runVars, ingestVars, pageVars, scriptVars>>

NextRoute ==
  \/ Receive
  \/ JsonReturns
  \/ GenerateObjectReturns
  \/ RouteNextRequest

SpecRoute == InitIdle /\ [][NextRoute]_vars


(***************************************************************************)
(* Claims.                                                                 *)
(***************************************************************************)
SelectedSet == {args.selectedIndustries[k] : k \in 1..Len(args.selectedIndustries)}

IndustrySet(investor) == {investor.industries[k] : k \in 1..Len(investor.industries)}

IdsOf(seq) == {seq[k]._id : k \in 1..Len(seq)}

\* The position of a document's id in the search results.
PosInSearch(id) == CHOOSE k \in 1..Len(searchResults) : searchResults[k]._id = id

InvalidInput ==
  \/ Trim(args.aboutYou) = <<>>
  \/ Trim(args.aboutStartup) = <<>>
  \/ Len(args.selectedIndustries) = 0

SchemaValidationFailed ==
  extractResponse.kind = "object" /\ ~MatchesSchema(extractResponse.object)

\* C1: an input whose aboutYou or aboutStartup is empty after trimming, or
\* whose selectedIndustries is empty, ends the run in an error with no
\* extraction, embedding, vector-search, lookup or generation call made.
C1_InvalidInputRejected ==
  (InvalidInput /\ pc # "start") =>
     /\ pc = "failed"
     /\ error.at = "validate"
     /\ calls = NoCalls

C1_Witness ==
  /\ pc = "failed"
  /\ args.aboutYou = Sp(2)
  /\ args.aboutStartup = Ch(1)
  /\ Len(args.selectedIndustries) > 0
  /\ openaiApiKey

\* C2: a failed generation call of one candidate does not fail the run: the
\* run never ends in an error because of it, and the returned list keeps
\* that candidate with an empty message and every other candidate with the
\* message of its own call.
C2_FaultIsolation ==
  (\E i \in 1..Len(branches) : branches[i].state = "rejected") =>
     /\ pc # "failed"
     /\ pc = "done" =>
          /\ Len(result.investors) = Len(topInvestors)
          /\ \A i \in 1..Len(branches) :
               result.investors[i].personalizedMessage =
                 branches[i].personalizedMessage

C5_PositionalResults ==
  pc = "done" =>
     /\ Len(result.investors) = Len(topInvestors)
     /\ \A i \in 1..Len(topInvestors) :
          /\ result.investors[i]._id = topInvestors[i]._id
          /\ result.investors[i]._score = topInvestors[i]._score
          /\ result.investors[i].personalizedMessage =
               PersonalizedMessage(branches[i].content)

C5_Witness ==
  /\ pc = "done"
  /\ Len(completionOrder) = 2
  /\ completionOrder[1] = 2
  /\ branches[1].personalizedMessage # branches[2].personalizedMessage

\* C6: every candidate the retriever keeps has an industry among the
\* selected ones, and no looked-up document without such an industry (an
\* empty industries array included) is among the candidates.
C6_IndustryFilter ==
  /\ \A k \in 1..Len(investorsWithData) :
       IndustrySet(investorsWithData[k]) \cap SelectedSet # {}
  /\ \A k \in 1..Len(topInvestors) :
       IndustrySet(topInvestors[k]) \cap SelectedSet # {}
  /\ \A k \in 1..Len(searchResults) :
       (IndustrySet(store[searchResults[k]._id]) \cap SelectedSet = {}) =>
          /\ searchResults[k]._id \notin IdsOf(investorsWithData)
          /\ searchResults[k]._id \notin IdsOf(topInvestors)

C6_Witness ==
  /\ pc = "composing"
  /\ Len(topInvestors) = 2
  /\ \E k \in 1..Len(searchResults) :
       /\ store[searchResults[k]._id].industries = <<>>
       /\ k < Len(searchResults)

\* C7: the retained candidates are in the order of the search results: of
\* two candidates, the one the search returned first comes first.
C7_SubSequenceOfSearch ==
  /\ IdsOf(investorsWithData) \subseteq IdsOf(searchResults)
  /\ \A i, j \in 1..Len(investorsWithData) :
       i < j => PosInSearch(investorsWithData[i]._id)
                  < PosInSearch(investorsWithData[j]._id)
  /\ IdsOf(topInvestors) \subseteq IdsOf(searchResults)
  /\ \A i, j \in 1..Len(topInvestors) :
       i < j => PosInSearch(topInvestors[i]._id)
                  < PosInSearch(topInvestors[j]._id)

C7_Witness ==
  /\ pc = "composing"
  /\ Len(topInvestors) = 2
  /\ topInvestors[1]._id = 2
  /\ searchResults[2]._id = 3

C9_NoEmptyEmbeddingInput ==
  calls.embed > 0 => embeddingInput # <<>>

\* C10: the vector given to the vector search has the configured length; a
\* vector of another length from the provider ends the run in an error
\* before the search is issued.
C10_SearchVectorHasDimensions ==
  /\ calls.search > 0 => searchVector = Dimensions
  /\ founderEmbedding \notin {0, Dimensions} =>
       /\ pc = "failed"
       /\ calls.search = 0

\* C11: a failure of the embedding call, of the vector search or of a
\* by-id lookup ends the run in that error: nothing is returned (no summary,
\* no candidate list, no outreach batch) and no call of a later stage is
\* made.
C11_FailureAborts ==
  /\ error.at = "embed" =>
       /\ pc = "failed"
       /\ result = NoResult
       /\ calls.search = 0 /\ calls.lookup = 0 /\ calls.generate = 0
  /\ error.at = "search" =>
       /\ pc = "failed"
       /\ result = NoResult
       /\ calls.lookup = 0 /\ calls.generate = 0
  /\ (\E k \in 1..Len(lookups) : lookups[k].kind = "error") =>
       /\ pc = "failed"
       /\ error.at = "lookup"
       /\ result = NoResult
       /\ lookups[Len(lookups)].kind = "error"
       /\ calls.lookup = Len(lookups)
       /\ calls.generate = 0
       /\ branches = <<>>

C11_Witness ==
  /\ pc = "failed"
  /\ Len(lookups) = 2
  /\ lookups[2].kind = "error"
  /\ Len(investorsWithData) = 1
  /\ Len(searchResults) = 3

\* The lookups that found no document.
MissingLookups ==
  {k \in 1..Len(lookups) : lookups[k].kind = "ok" /\ lookups[k].doc = Null}

\* The ids whose lookup gave a document with a selected industry.
MatchingLookedUp ==
  { searchResults[k]._id : k \in
      {j \in 1..Len(lookups) :
         /\ lookups[j].kind = "ok"
         /\ lookups[j].doc # Null
         /\ IndustrySet(lookups[j].doc) \cap SelectedSet # {}} }

\* C12: a lookup that finds no document drops that id and nothing else: the
\* run does not fail at it, the next id is looked up, and the candidates
\* are the ids whose lookup gave a document with a selected industry.
C12_MissingRecordsDropped ==
  /\ \A k \in MissingLookups :
       /\ searchResults[k]._id \notin IdsOf(investorsWithData)
       /\ ~(pc = "failed" /\ error.at = "lookup" /\ Len(lookups) = k)
       /\ k < Len(searchResults) => calls.lookup > k
  /\ pc \in {"composing", "done"} => Len(lookups) = Len(searchResults)
  /\ (\A k \in 1..Len(lookups) : lookups[k].kind = "ok") =>
       IdsOf(investorsWithData) = MatchingLookedUp

C12_Witness ==
  /\ pc = "done"
  /\ MissingLookups = {1}
  /\ Len(lookups) = 3
  /\ result.totalFound = 1
  /\ result.investors[1]._id = searchResults[3]._id

\* Step 4 is over: every search result has been looked up.
Hydrated ==
  \/ pc \in {"composing", "done"}
  \/ pc = "failed" /\ error.at \in {"compose", "generate"}

\* C13: the candidates kept are the first ResultLimit elements of the
\* filtered hydrated sequence, all of it when it is shorter; the returned
\* list has at most ResultLimit elements, and its scores do not increase.
C13_Truncation ==
  /\ Hydrated =>
       /\ Len(topInvestors) = Min(ResultLimit, Len(investorsWithData))
       /\ \A i \in 1..Len(topInvestors) : topInvestors[i] = investorsWithData[i]
  /\ pc = "done" =>
       /\ Len(result.investors) = Min(ResultLimit, Len(investorsWithData))
       /\ Len(result.investors) <= ResultLimit
       /\ \A i \in 1..Len(result.investors) :
            /\ result.investors[i]._id = investorsWithData[i]._id
            /\ result.investors[i]._score = investorsWithData[i]._score
       /\ \A i, j \in 1..Len(result.investors) :
            i < j => result.investors[i]._score >= result.investors[j]._score

C13_Witness ==
  /\ pc = "done"
  /\ Len(investorsWithData) = ResultLimit + 1
  /\ Len(result.investors) = ResultLimit
  /\ result.investors[1]._id = 4

\* The search has answered and every result has been looked up, and no
\* document found has a selected industry.
NothingMatches ==
  /\ calls.search = 1
  /\ pc # "searching"
  /\ error.at # "search"
  /\ Len(lookups) = Len(searchResults)
  /\ \A k \in 1..Len(lookups) :
       /\ lookups[k].kind = "ok"
       /\ IndustrySet(lookups[k].doc) \cap SelectedSet = {}

\* C14: when the search gives no result, or no looked-up document has a
\* selected industry, the run does not fail and makes no generation call,
\* and what it returns has totalFound = 0, an empty investor list and an
\* empty outreach batch.
C14_NoMatchIsSuccess ==
  NothingMatches =>
     /\ pc \in {"composing", "done"}
     /\ error = NoError
     /\ calls.generate = 0
     /\ branches = <<>>
     /\ pc = "done" =>
          /\ result.totalFound = 0
          /\ result.investors = <<>>
          /\ result.dmPayload = <<>>
          /\ result.summary = founderSummary

C14_Witness ==
  /\ NothingMatches
  /\ pc = "done"
  /\ Len(searchResults) = NumInvestors
  /\ result.totalFound = 0

\* The same with a search that gives no result.
C14_WitnessEmptySearch ==
  /\ NothingMatches
  /\ pc = "done"
  /\ searchResults = <<>>
  /\ result.totalFound = 0

\* C15: the outreach batch has one item per returned investor, in order;
\* the item's message is the investor's personalizedMessage and its
\* destination is the investor's twitter_url when the investor has one, and
\* otherwise the profile URL of the investor's username.
C15_OutreachBatch ==
  pc = "done" =>
     /\ Len(result.dmPayload) = Len(result.investors)
     /\ \A i \in 1..Len(result.investors) :
          /\ result.dmPayload[i].message =
               result.investors[i].personalizedMessage
          /\ IF Truthy(result.investors[i].twitter_url)
               THEN result.dmPayload[i].twitterUrl =
                      result.investors[i].twitter_url
               ELSE /\ result.investors[i].username # Missing
                    /\ result.dmPayload[i].twitterUrl =
                         "https://twitter.com/" \o result.investors[i].username

\* The same for the investors that have a twitter_url or a username.
C15_OutreachBatchWithContact ==
  pc = "done" =>
     /\ Len(result.dmPayload) = Len(result.investors)
     /\ \A i \in 1..Len(result.investors) :
          /\ result.dmPayload[i].message =
               result.investors[i].personalizedMessage
          /\ Truthy(result.investors[i].twitter_url) =>
               result.dmPayload[i].twitterUrl = result.investors[i].twitter_url
          /\ (~Truthy(result.investors[i].twitter_url)
                /\ result.investors[i].username # Missing) =>
               result.dmPayload[i].twitterUrl =
                 "https://twitter.com/" \o result.investors[i].username

\* The generation call of candidate i succeeded with no content or with
\* an empty one.
EmptyGeneration(i) ==
  /\ branches[i].state = "fulfilled"
  /\ ~branches[i].content.present \/ branches[i].content.text = <<>>

\* C16: a generation call that succeeds with an empty or absent content
\* does not fail the run, and the returned list and the outreach batch keep
\* its candidate, at its position, with the message ''.
C16_EmptyGenerationKept ==
  /\ \A i \in 1..Len(branches) :
       branches[i].content.present => branches[i].state = "fulfilled"
  /\ (pc = "failed" /\ error.at = "generate") =>
       \E i \in 1..Len(branches) :
          branches[i].state = "rejected" /\ ~EmptyGeneration(i)
  /\ pc = "done" =>
       /\ Len(result.investors) = Len(branches)
       /\ Len(result.dmPayload) = Len(branches)
       /\ \A i \in 1..Len(branches) :
            EmptyGeneration(i) =>
               /\ result.investors[i]._id = topInvestors[i]._id
               /\ result.investors[i].personalizedMessage = <<>>
               /\ result.dmPayload[i].message = <<>>

C16_Witness ==
  /\ pc = "done"
  /\ Len(branches) = 2
  /\ branches[1].content = Content(TRUE, <<>>)
  /\ branches[2].content = Content(FALSE, <<>>)
  /\ result.totalFound = 2

\* C17: every investor of the returned list has dm_open_status = 'open',
\* also when an upsert changes a document between the vector search and
\* the lookup of that document.
C17_ReturnedAreOpen ==
  pc = "done" =>
     \A i \in 1..Len(result.investors) :
        result.investors[i].dm_open_status = "open"

\* C18: no step of a run changes the investors table, whatever the run
\* does and however it ends.
C18_StoreUntouched == [][store' = store]_vars

C18_Witness ==
  /\ pc = "failed"
  /\ error.at = "generate"
  /\ Len(lookups) = NumInvestors
  /\ store = [i \in Ids |-> InvestorDoc(i)]

\* C19: each stage's calls are issued after the stage before has completed:
\* the embedding call after the extraction has answered, the vector search
\* after the embedding has answered, every lookup after the search has
\* answered, and every generation call after all lookups have answered.
C19_StageOrdering ==
  /\ calls.embed > 0 =>
       /\ calls.extract = 1
       /\ extractResponse # NoResponse
  /\ calls.search > 0 =>
       /\ calls.embed = 1
       /\ founderEmbedding # 0
  /\ calls.lookup > 0 =>
       /\ calls.search = 1
       /\ pc # "searching"
       /\ calls.lookup <= Len(searchResults)
  /\ calls.generate > 0 =>
       /\ calls.lookup = Len(searchResults)
       /\ Len(lookups) = Len(searchResults)
       /\ \A k \in 1..Len(lookups) : lookups[k].kind = "ok"

C19_Witness ==
  /\ pc = "composing"
  /\ calls.generate = 2
  /\ Len(lookups) = NumInvestors
  /\ \A i \in 1..Len(branches) : branches[i].state = "pending"

\* C20: no call is made again: at most one extraction, one embedding and
\* one vector search in a run, one lookup per search result and one
\* generation call per retained candidate, whichever calls fail.
C20_NoRetries ==
  /\ calls.extract <= 1
  /\ calls.embed <= 1
  /\ calls.search <= 1
  /\ calls.lookup <= Len(searchResults)
  /\ calls.lookup <= Len(lookups) + 1
  /\ pc = "hydrating" => calls.lookup = idx
  /\ calls.generate <= Len(topInvestors)
  /\ calls.generate <= Len(branches)

C20_Witness ==
  /\ pc = "failed"
  /\ error.at = "generate"
  /\ calls = [extract |-> 1, embed |-> 1, search |-> 1,
              lookup |-> NumInvestors, generate |-> 2]
  /\ \A i \in 1..Len(branches) : branches[i].state = "rejected"

\* The handler has ended, by its return statement or by an error.
Ended == pc \in {"done", "failed"}

\* C21: the action does not end while a generation call it started is still
\* in flight: when it has ended, every branch has settled, and a returned
\* list holds the outcome of every branch.
C21_FanInJoin ==
  /\ Ended => \A i \in 1..Len(branches) : branches[i].state # "pending"
  /\ pc = "done" =>
       /\ Len(result.investors) = Len(branches)
       /\ \A i \in 1..Len(branches) :
            /\ branches[i].state = "fulfilled"
            /\ result.investors[i].personalizedMessage =
                 branches[i].personalizedMessage

\* The part of C21 about the return statement alone.
C21_ReturnAfterJoin ==
  pc = "done" =>
     /\ Len(result.investors) = Len(branches)
     /\ Len(completionOrder) = Len(branches)
     /\ \A i \in 1..Len(branches) :
          /\ branches[i].state = "fulfilled"
          /\ result.investors[i].personalizedMessage =
               branches[i].personalizedMessage

\* C22: in a returned result totalFound is the length of the investors
\* list and of dmPayload, and each investor carries the score the vector
\* search gave for its id.
C22_CountsAndScores ==
  pc = "done" =>
     /\ result.totalFound = Len(result.investors)
     /\ result.totalFound = Len(result.dmPayload)
     /\ \A i \in 1..Len(result.investors) :
          \E k \in 1..Len(searchResults) :
             /\ searchResults[k]._id = result.investors[i]._id
             /\ searchResults[k]._score = result.investors[i]._score

C22_Witness ==
  /\ pc = "done"
  /\ result.totalFound = 2
  /\ result.investors[1]._score = 3
  /\ result.investors[2]._score = 1

\* The step is a call of upsertByTwitter with the arguments of the call
\* before it, which name a twitter_url or a username.
RepeatedUpsert ==
  /\ Len(upsertLog) >= 1
  /\ Len(upsertLog') = Len(upsertLog) + 1
  /\ upsertLog'[Len(upsertLog')].args = upsertLog[Len(upsertLog)].args
  /\ \/ Truthy(upsertLog[Len(upsertLog)].args.twitter_url)
     \/ Truthy(upsertLog[Len(upsertLog)].args.username)

\* C23: a call of upsertByTwitter with the arguments of the call just
\* before it returns the id that call returned and leaves the table as
\* that call left it.
C23_UpsertIdempotent ==
  [][RepeatedUpsert =>
       /\ upsertLog'[Len(upsertLog')].id = upsertLog[Len(upsertLog)].id
       /\ store' = store]_vars

\* C24: no two documents of the table have the same non-empty twitter_url.
C24_TwitterUrlUnique ==
  \A i, j \in DOMAIN store :
     (i # j /\ Truthy(store[i].twitter_url)) =>
        store[i].twitter_url # store[j].twitter_url

C24_Witness ==
  /\ Len(upsertLog) = 3
  /\ upsertLog[1].args.twitter_url = ProfileUrl(UserName(1))
  /\ upsertLog[2].args.twitter_url = ProfileUrl(UserName(2))
  /\ upsertLog[3].args.twitter_url = ProfileUrl(UserName(1))
  /\ upsertLog[3].args.username = UserName(2)
  /\ upsertLog[3].id = 1
  /\ Cardinality(DOMAIN store) = 2

\* C25: no two documents of the table have the same username.
C25_UsernameUnique ==
  \A i, j \in DOMAIN store :
     (i # j /\ store[i].username # Missing) =>
        store[i].username # store[j].username

\* The submission has finished.
SubmissionOver == pagePc = "idle" /\ findOutcome # "none"

\* C26: a submission whose findInvestors call succeeded has sent the DM
\* payload to /send-messages exactly once; one that failed validation or
\* whose findInvestors call failed has sent it zero times.
C26_SendsOnce ==
  SubmissionOver =>
     /\ findOutcome = "ok" => sends = 1
     /\ findOutcome \in {"invalid", "error"} => sends = 0

\* The part of C26 about the submissions that send nothing.
C26_NoSendWithoutResult ==
  findOutcome \in {"invalid", "error", "pending"} => sends = 0

\* C27: when a submission has finished, on whichever path, isLoading and
\* isSending are false; isSending is true only while isLoading is.
C27_FlagsReset ==
  /\ pagePc = "idle" => ~isLoading /\ ~isSending
  /\ isSending => isLoading

C27_Witness ==
  /\ SubmissionOver
  /\ findOutcome = "ok"
  /\ respOk
  /\ dmResult = "null"
  /\ sends = 1
  /\ ~isLoading

\* C28: once clearForm has run, results and dmResult are null until the
\* next submission starts.
C28_ClearedStaysCleared ==
  cleared => results = "null" /\ dmResult = "null"

\* C29: main counts every eligible investor exactly once, as processed or
\* as an error, whichever embedding calls and upserts fail, and goes on to
\* the end: when it is over, totalProcessed + totalErrors is the number of
\* eligible investors.
C29_EveryInvestorOnce ==
  /\ \A k \in DOMAIN tallied : tallied[k] <= 1
  /\ scriptPc = "upserting" => upsertPending # {}
  /\ scriptPc \in {"embedding", "upserting"} =>
       /\ batchStart <= Len(Eligible(scriptRaw))
       /\ \A k \in DOMAIN tallied : k < batchStart => tallied[k] = 1
  /\ scriptPc = "done" =>
       /\ \A k \in DOMAIN tallied : tallied[k] = 1
       /\ totalProcessed + totalErrors = Len(Eligible(scriptRaw))
       /\ upsertPending = {}

C29_Witness ==
  /\ scriptPc = "done"
  /\ Len(Eligible(scriptRaw)) = NumRaw
  /\ batchStart > BatchSize + 1
  /\ totalErrors = BatchSize
  /\ totalProcessed = NumRaw - BatchSize
  /\ store # <<>>
  /\ store[1].username = UserName(NumRaw)

\* The request of the route is an object whose aboutYou and aboutStartup
\* are strings or absent and whose selectedIndustries is an array or absent.
WellTyped(r) ==
  /\ r.body = "object"
  /\ r.aboutYou.kind \in {"undefined", "string"}
  /\ r.aboutStartup.kind \in {"undefined", "string"}
  /\ r.selectedIndustries.kind \in {"undefined", "array"}

\* The claim's 400 case: a text field missing or blank after trimming, or
\* the industries missing or empty.
Claimed400(r) ==
  /\ r.body = "object"
  /\ \/ BlankField(r.aboutYou)
     \/ BlankField(r.aboutStartup)
     \/ r.selectedIndustries.kind \in {"undefined", "null"}
     \/ r.selectedIndustries.kind = "array" /\ r.selectedIndustries.len = 0

\* C30: the route answers each request once and never throws: 400 without
\* a generation call when a text field is missing or blank or the industries
\* are missing or empty, 500 "Failed to generate summary" when the body does
\* not parse or the generation fails, 200 with the summary otherwise.
C30_StatusByCase ==
  routePc = "done" =>
    /\ Len(routeResponses) = 1
    /\ ~routeThrew
    /\ IF routeReq.body = "unparsable" THEN routeResponses[1] = FailedResponse
       ELSE IF Claimed400(routeReq)
         THEN routeResponses[1].status = 400 /\ routeGenCalls = 0
       ELSE IF routeGenCalls = 1
         THEN routeResponses[1] \in {SummaryResponse, FailedResponse}
       ELSE routeResponses[1] = SummaryResponse

\* C30, the part that holds: one response per request and nothing thrown,
\* and the claimed status for every request whose fields have the types the
\* page sends.
C30_OneResponse ==
  /\ ~routeThrew
  /\ Len(routeResponses) <= 1
  /\ routeGenCalls <= 1
  /\ routePc = "done" =>
       /\ Len(routeResponses) = 1
       /\ routeReq.body = "unparsable" => routeResponses[1] = FailedResponse
       /\ routeReq.body = "object" /\ WellTyped(routeReq) =>
            IF Claimed400(routeReq)
              THEN routeResponses[1].status = 400 /\ routeGenCalls = 0
              ELSE /\ routeGenCalls = 1
                   /\ routeResponses[1] \in {SummaryResponse, FailedResponse}

C30_OneResponseWitness ==
  /\ routePc = "done"
  /\ WellTyped(routeReq)
  /\ routeResponses = <<SummaryResponse>>

====
